---- MODULE Spec2Model ----
(***************************************************************************)
(* Verification model of the update-delivery core of @inferencesh/sdk:     *)
(*   - StreamManager (src/src/http/stream.ts): the reconnecting event      *)
(*     stream channel,                                                     *)
(*   - TasksAPI.run (src/src/api/tasks.ts): the waiting run that settles   *)
(*     one promise from the channel's updates,                             *)
(*   - PollManager (src/src/client.ts): the polling channel,               *)
(*   - updateMessage (src/src/agent/actions.ts): the client tool           *)
(*     dispatcher,                                                         *)
(*   - Agent (src/src/http/stream.ts): the headless chat coordinator,      *)
(*   - the chat provider (src/src/agent/actions.ts, reducer.ts).           *)
(* JavaScript is single threaded: every action below is one callback turn  *)
(* of the event loop (a method call up to its first await, the             *)
(* continuation of an await, a timer callback, a transport event).         *)
(***************************************************************************)
EXTENDS Integers, Sequences, FiniteSets, TLC

VARIABLES sm, pm, td, td2, ag, pv

vars == <<sm, pm, td, td2, ag, pv>>

(***************************************************************************)
(* Bounds of the model (environment inputs only, never the code's steps).  *)
(***************************************************************************)
MaxReconnectsOpt == 2   \* options.maxReconnects ranges over 0..MaxReconnectsOpt
MaxUserConnects == 2    \* connect() calls made by the owner of a channel
MaxUserStops == 1       \* stop() calls made by the owner of a channel
MaxFaults == 3          \* transport errors, rejected and null createEventSource()

(***************************************************************************)
(* Wire messages.  A message is the text of one event; JSON.parse either   *)
(* throws or yields a value whose shape is one of:                         *)
(*   full       a plain resource object (no data/fields wrapper)           *)
(*   wrapper    {data: T, fields: [...]}                                   *)
(*   dataOnly   {data: T}              (no fields property)                *)
(*   fieldsStr  {data: T, fields: "x"} (fields is not an array)            *)
(*   invalid    not JSON                                                   *)
(* body is the resource (a task): its status and its error text.           *)
(***************************************************************************)
Shapes == {"full", "wrapper", "dataOnly", "fieldsStr", "invalid"}
Statuses == {"Queued", "Running", "Completed", "Failed", "Cancelled"}
Errors == {"", "boom"}
Bodies == [status : Statuses, error : Errors]
Messages == [shape : Shapes, body : Bodies]

Parses(msg) == msg.shape # "invalid"
HasData(msg) == msg.shape \in {"wrapper", "dataOnly", "fieldsStr"}
HasFields(msg) == msg.shape \in {"wrapper", "fieldsStr"}
FieldsIsArray(msg) == msg.shape = "wrapper"

\* src/src/http/stream.ts:25-33
isPartialDataWrapper(parsed) ==
    /\ Parses(parsed)
    /\ HasData(parsed)
    /\ HasFields(parsed)
    /\ FieldsIsArray(parsed)

\* The argument a callback receives: the envelope as parsed, or its .data
Envelope(msg) == [of |-> "envelope", shape |-> msg.shape, body |-> msg.body]
Inner(msg) == [of |-> "data", shape |-> "full", body |-> msg.body]

NoTask == [status |-> "none", error |-> ""]

\* data.status / data.error as TasksAPI.run reads them from a callback
\* argument: a {data: ...} envelope that is not unwrapped has neither.
TaskOf(arg) ==
    IF arg.of = "data" \/ arg.shape = "full" THEN arg.body ELSE NoTask

(***************************************************************************)
(* StreamManager.  sm is the manager object together with the event        *)
(* sources it obtained and a record of the callbacks it made.              *)
(*   mode "plain": the owner registered counting callbacks (as the tests   *)
(*                 of src/src/stream.test.ts do) and calls connect()/stop() *)
(*   mode "run":   the manager was built by TasksAPI.run, whose callbacks  *)
(*                 settle the run's promise                                *)
(*   mode "hooked": as "plain", and one of the owner's callbacks calls     *)
(*                 stop() on the manager the first time it is invoked      *)
(***************************************************************************)
Modes == {"plain", "run", "hooked"}

\* The callback from which a "hooked" owner calls stop()
StopHooks ==
    {"none", "onData", "onPartialData", "listener", "onStart", "onStop", "onError"}

Options ==
    [autoReconnect : BOOLEAN, maxReconnects : 0..MaxReconnectsOpt,
     onData : BOOLEAN, onPartialData : BOOLEAN,
     onUpdate : BOOLEAN, onPartialUpdate : BOOLEAN,
     stopIn : StopHooks]

\* src/src/http/stream.ts:36-52 (fields and constructor)
NewStreamManager(opts, mode) ==
    [mode |-> mode,
     options |-> opts,
     eventSource |-> 0,                 \* 0 is null, else the source's id
     reconnectTimeout |-> FALSE,        \* the handle names a live timer
     stopTimeout |-> FALSE,
     initialConnectionAttempts |-> 0,
     isConnected |-> FALSE,
     isStopped |-> FALSE,
     eventListeners |-> 0,              \* callbacks registered for the event name
     \* environment: createEventSource() calls awaited, sources obtained
     pending |-> 0,
     created |-> 0,
     open |-> {},
     wired |-> {},
     closures |-> <<>>,                 \* per source: typed-event closures on it
     leakedTimers |-> 0,                \* live timers whose handle was overwritten
     \* what the environment and the owner did
     userConnects |-> 0, userStops |-> 0,
     errors |-> 0, rejects |-> 0, nulls |-> 0,
     last |-> "new",
     stopAfters |-> 0,
     reconnectBefore |-> FALSE,         \* reconnectTimeout when stopAfter() was called
     \* callbacks made
     createCalls |-> 0,
     onStartCalls |-> 0, onStopCalls |-> 0, onStopAt |-> "never",
     msg |-> [shape |-> "invalid", body |-> NoTask],
     calls |-> <<>>,
     \* TasksAPI.run: the promise and the caller's update callbacks
     promise |-> "pending", value |-> NoTask, settleCalls |-> 0,
     lateUpdates |-> 0, terminalSeen |-> NoTask,
     seen |-> {},
     notified |-> 0,                    \* caller callbacks made for msg
     \* stop() was called; the hook called it; what was called after it
     stopCalled |-> FALSE, hookFired |-> FALSE, afterStop |-> {}]

\* src/src/http/stream.ts:105-114
clearTimeouts(m) ==
    [m EXCEPT !.reconnectTimeout = FALSE, !.stopTimeout = FALSE]

\* src/src/http/stream.ts:116-121
closeEventSource(m) ==
    IF m.eventSource # 0
    THEN [m EXCEPT !.open = @ \ {m.eventSource}, !.eventSource = 0]
    ELSE m

\* src/src/http/stream.ts:130-133
stopAfter(m) == [clearTimeouts(m) EXCEPT !.stopTimeout = TRUE]

\* src/src/http/stream.ts:135-140
clearStopTimeout(m) == [m EXCEPT !.stopTimeout = FALSE]

RECURSIVE stop(_)

\* The body of a "hooked" owner's callback cb: it calls stop() on the manager
\* the first time it is invoked
hookStop(m, cb) ==
    IF m.mode = "hooked" /\ m.options.stopIn = cb /\ ~m.hookFired
    THEN stop([m EXCEPT !.hookFired = TRUE])
    ELSE m

\* Record of a callback or createEventSource() call made after stop()
noteCall(m, what) ==
    IF m.stopCalled THEN [m EXCEPT !.afterStop = @ \cup {what}] ELSE m

\* options.onStop?.(): TasksAPI.run registers none (src/src/api/tasks.ts:127-166)
onStop(m) ==
    IF m.mode # "run"
    THEN hookStop([m EXCEPT !.onStopCalls = @ + 1, !.onStopAt = m.last], "onStop")
    ELSE m

\* src/src/http/stream.ts:123-128
cleanup(m) ==
    onStop([closeEventSource(clearTimeouts(m)) EXCEPT !.isConnected = FALSE])

\* src/src/http/stream.ts:142-145
stop(m) == cleanup([m EXCEPT !.isStopped = TRUE, !.stopCalled = TRUE])

\* Promise semantics: only the first resolve/reject settles
settle(m, how, v) ==
    IF m.promise = "pending"
    THEN [m EXCEPT !.promise = how, !.value = v, !.settleCalls = @ + 1]
    ELSE [m EXCEPT !.settleCalls = @ + 1]

\* options.onError?.(error); src/src/api/tasks.ts:162-165 for a run
onError(m, error) ==
    IF m.mode = "run"
    THEN stop(settle(m, "rejected", [status |-> "error", error |-> error]))
    ELSE hookStop(m, "onError")

\* options.onStart?.()
onStart(m) ==
    hookStop(noteCall([m EXCEPT !.onStartCalls = @ + 1], "onStart"), "onStart")

\* Mutant: the budget test is off by one
reconnectAllowed_OffByOne(m) ==
    /\ ~(~m.options.autoReconnect \/ m.isStopped)
    /\ ~(~m.isConnected /\ m.initialConnectionAttempts > m.options.maxReconnects)

\* The test of src/src/http/stream.ts:148-154: does scheduleReconnect() return true
reconnectAllowed(m) ==
    /\ ~(~m.options.autoReconnect \/ m.isStopped)
    /\ ~(~m.isConnected /\ m.initialConnectionAttempts >= m.options.maxReconnects)

\* src/src/http/stream.ts:147-166: the state scheduleReconnect() leaves
scheduleReconnect(m) ==
    IF reconnectAllowed(m)
    THEN [m EXCEPT !.reconnectTimeout = TRUE,
                   !.leakedTimers = IF m.reconnectTimeout THEN @ + 1 ELSE @]
    ELSE m

\* src/src/http/stream.ts:216-218 and 226-228
reconnectOrStop(m) ==
    IF reconnectAllowed(m) THEN scheduleReconnect(m) ELSE stop(m)

\* src/src/http/stream.ts:168-175: connect() up to its await
connectBegin(m) ==
    IF m.isStopped THEN m
    ELSE noteCall([cleanup(m) EXCEPT !.isStopped = FALSE,
                                     !.createCalls = @ + 1,
                                     !.pending = @ + 1], "createEventSource")

(***************************************************************************)
(* TasksAPI.run: the callbacks it hands to its StreamManager.              *)
(***************************************************************************)
IsTerminal(status) == status \in {"Completed", "Failed", "Cancelled"}

\* onUpdate?.(stripped) / onPartialUpdate?.(stripped, fields)
notifyUpdate(m, registered) ==
    IF registered
    THEN [m EXCEPT !.lateUpdates = IF m.promise # "pending" THEN @ + 1 ELSE @,
                   !.notified = @ + 1]
    ELSE m

\* data.error || 'task failed'
failureReason(task) == IF task.error = "" THEN "task failed" ELSE task.error

\* src/src/api/tasks.ts:136-145 and 151-160: the status switch of both callbacks
settleOnStatus(m, task) ==
    LET noted == [m EXCEPT !.seen = @ \cup {task.status},
                           !.terminalSeen =
                               IF IsTerminal(task.status) /\ @ = NoTask
                               THEN task ELSE @]
    IN  IF task.status = "Completed"
            THEN settle(stop(noted), "resolved", task)
        ELSE IF task.status = "Failed"
            THEN settle(stop(noted), "rejected",
                        [status |-> "error", error |-> failureReason(task)])
        ELSE IF task.status = "Cancelled"
            THEN settle(stop(noted), "rejected",
                        [status |-> "error", error |-> "task cancelled"])
        ELSE noted

\* src/src/api/tasks.ts:132-146
runOnData(m, arg) ==
    settleOnStatus(notifyUpdate(m, m.options.onUpdate), TaskOf(arg))

\* src/src/api/tasks.ts:147-161
runOnPartialData(m, arg) ==
    settleOnStatus(notifyUpdate(m, m.options.onPartialUpdate), TaskOf(arg))

(***************************************************************************)
(* StreamManager: the handlers connect() installs on a source.             *)
(***************************************************************************)
\* options.onData?.(arg)
onData(m, arg) ==
    IF ~m.options.onData THEN m
    ELSE LET m1 == noteCall([m EXCEPT !.calls = Append(@, [cb |-> "onData",
                                                            arg |-> arg,
                                                            fields |-> FALSE])],
                            "onData")
         IN  IF m.mode = "run" THEN runOnData(m1, arg)
             ELSE hookStop(m1, "onData")

\* options.onPartialData(data, fields)
onPartialData(m, arg) ==
    LET m1 == noteCall([m EXCEPT !.calls = Append(@, [cb |-> "onPartialData",
                                                       arg |-> arg,
                                                       fields |-> TRUE])],
                       "onPartialData")
    IN  IF m.mode = "run" THEN runOnPartialData(m1, arg)
        ELSE hookStop(m1, "onPartialData")

\* Mutant: the partial-update callback does not replace onData
dispatchMessage_AlsoOnData(m, parsed) ==
    IF isPartialDataWrapper(parsed)
    THEN IF m.options.onPartialData
         THEN onData(onPartialData(m, Inner(parsed)), Inner(parsed))
         ELSE onData(m, Inner(parsed))
    ELSE onData(m, Envelope(parsed))

\* src/src/http/stream.ts:188-201: the dispatch of one parsed message
dispatchMessage(m, parsed) ==
    IF isPartialDataWrapper(parsed)
    THEN IF m.options.onPartialData
         THEN onPartialData(m, Inner(parsed))
         ELSE onData(m, Inner(parsed))
    ELSE onData(m, Envelope(parsed))

\* Mutant: the handler does not check isStopped
onmessage_NoStoppedCheck(m, msg) ==
    LET m0 == [m EXCEPT !.msg = msg, !.calls = <<>>, !.last = "message",
                             !.notified = 0]
    IN  IF Parses(msg)
        THEN dispatchMessage(m0, msg)
        ELSE onError(m0, "Invalid JSON")

\* src/src/http/stream.ts:185-206: source.onmessage
onmessage(m, msg) ==
    IF m.isStopped THEN m
    ELSE LET m0 == [m EXCEPT !.msg = msg, !.calls = <<>>, !.last = "message",
                             !.notified = 0]
         IN  IF Parses(msg)
             THEN dispatchMessage(m0, msg)
             ELSE onError(m0, "Invalid JSON")

\* src/src/http/stream.ts:208-219: source.onerror
onerror(m) ==
    IF m.isStopped THEN m
    ELSE reconnectOrStop(
             cleanup(onError([m EXCEPT !.last = "error"], "Event stream error")))

\* src/src/http/stream.ts:176-183: connect() after createEventSource() resolved
connectResolved(m, source) ==
    LET got == [m EXCEPT !.pending = @ - 1, !.created = source,
                         !.open = @ \cup {source},
                         !.closures = Append(@, 0)]
    IN  IF m.isStopped THEN got
        ELSE onStart([got EXCEPT !.eventSource = source,
                                 !.isConnected = TRUE,
                                 !.wired = @ \cup {source},
                                 !.closures[source] =
                                     IF m.eventListeners > 0 THEN 1 ELSE 0,
                                 !.last = "open"])

\* src/src/http/stream.ts:176: createEventSource() resolved with null
connectNull(m) ==
    [m EXCEPT !.pending = @ - 1, !.nulls = @ + 1, !.last = "null"]

\* src/src/http/stream.ts:220-229: createEventSource() rejected
connectRejected(m) ==
    LET got == [m EXCEPT !.pending = @ - 1, !.rejects = @ + 1]
    IN  IF m.isStopped THEN got
        ELSE reconnectOrStop(
                 onError([got EXCEPT !.last = "reject"], "createEventSource failed"))

\* src/src/http/stream.ts:156-163: the reconnect timer's callback
reconnectTimer(m) ==
    IF ~m.isStopped
    THEN connectBegin([m EXCEPT !.initialConnectionAttempts =
                                    IF ~m.isConnected THEN @ + 1 ELSE @,
                                !.last = "reconnect"])
    ELSE m

\* src/src/http/stream.ts:58-66: addEventListener(eventName, callback) with a
\* new callback (all callbacks are registered for one event name)
addEventListener(m) ==
    [m EXCEPT !.eventListeners = @ + 1,
              !.closures = IF m.eventSource # 0
                           THEN [@ EXCEPT ![m.eventSource] = @ + 1]
                           ELSE @]

\* One registered callback of the event name is called with the data
listenerCall(m, arg) ==
    hookStop(noteCall([m EXCEPT !.calls = Append(@, [cb |-> "listener",
                                                      arg |-> arg,
                                                      fields |-> FALSE])],
                      "listener"),
             "listener")

RECURSIVE forEachListener(_, _, _)
\* src/src/http/stream.ts:90: listeners.forEach(callback => callback(actualData))
forEachListener(m, j, arg) ==
    IF j > m.eventListeners THEN m
    ELSE forEachListener(listenerCall(m, arg), j + 1, arg)

\* src/src/http/stream.ts:81-96: one closure setupEventListener() installed
typedListener(m, msg) ==
    IF m.isStopped THEN m
    ELSE IF ~Parses(msg) THEN onError(m, "Invalid JSON")
    ELSE forEachListener(m, 1, IF isPartialDataWrapper(msg)
                                   THEN Inner(msg) ELSE Envelope(msg))

RECURSIVE runClosures(_, _, _)
runClosures(m, k, msg) ==
    IF k = 0 THEN m ELSE runClosures(typedListener(m, msg), k - 1, msg)

\* A source dispatches one event of the event name to the closures on it
onevent(m, source, msg) ==
    IF m.isStopped THEN m
    ELSE runClosures([m EXCEPT !.msg = msg, !.calls = <<>>, !.last = "event",
                               !.notified = 0],
                     m.closures[source], msg)

(***************************************************************************)
(* PollManager (src/src/client.ts:645-713).  pm is the manager object,     *)
(* the pollFunction() calls it has in flight and a record of its callbacks.*)
(***************************************************************************)
MaxRetriesOpt == 5      \* options.maxRetries ranges over 1..MaxRetriesOpt
MaxPolls == 7           \* pollFunction() calls the environment lets happen
MaxStarts == 2          \* start() calls made by the owner
MaxPollStops == 2       \* stop() calls made by the owner

\* src/src/client.ts:647-661 (fields and constructor)
NewPollManager(maxRetries) ==
    [options |-> [maxRetries |-> maxRetries],
     interval |-> FALSE,                \* the handle names a live interval
     retryTimeout |-> FALSE,
     consecutiveErrors |-> 0,
     isStopped |-> TRUE,
     polling |-> FALSE,
     \* environment: pollFunction() promises not yet settled
     inFlight |-> 0,
     \* what the owner and the environment did
     starts |-> 0, userStops |-> 0, last |-> "new",
     failsSince |-> 0, stoppedBy |-> "none",
     \* callbacks and calls made
     pollCalls |-> 0, onDataCalls |-> 0, onErrorCalls |-> 0,
     onStartCalls |-> 0, onStopCalls |-> 0]

PmIdle == NewPollManager(1)

\* Mutant: poll() without the overlap guard
pollBegin_NoOverlapGuard(p) ==
    IF p.isStopped THEN p
    ELSE [p EXCEPT !.polling = TRUE, !.inFlight = @ + 1, !.pollCalls = @ + 1]

\* src/src/client.ts:692-696: poll() up to its await
pollBegin(p) ==
    IF p.isStopped \/ p.polling THEN p
    ELSE [p EXCEPT !.polling = TRUE, !.inFlight = @ + 1, !.pollCalls = @ + 1]

\* src/src/client.ts:664-671
pollStart(p) ==
    IF ~p.isStopped THEN p
    ELSE [pollBegin([p EXCEPT !.isStopped = FALSE,
                              !.consecutiveErrors = 0,
                              !.onStartCalls = @ + 1])
          EXCEPT !.interval = TRUE]

\* src/src/client.ts:681-690
pollCleanup(p) == [p EXCEPT !.interval = FALSE, !.retryTimeout = FALSE]

\* Mutant: stop() without the isStopped guard
pollStop_NoGuard(p) ==
    [pollCleanup([p EXCEPT !.isStopped = TRUE]) EXCEPT !.onStopCalls = @ + 1]

\* src/src/client.ts:674-679
pollStop(p) ==
    IF p.isStopped THEN p
    ELSE [pollCleanup([p EXCEPT !.isStopped = TRUE]) EXCEPT !.onStopCalls = @ + 1]

\* src/src/client.ts:696-700: pollFunction() resolved
pollResolved(p) ==
    LET done == [p EXCEPT !.polling = FALSE, !.inFlight = @ - 1]
    IN  IF p.isStopped THEN done
        ELSE [done EXCEPT !.consecutiveErrors = 0, !.onDataCalls = @ + 1]

\* src/src/client.ts:701-711: pollFunction() rejected
pollRejected(p) ==
    LET done == [p EXCEPT !.polling = FALSE, !.inFlight = @ - 1]
    IN  IF p.isStopped THEN done
        ELSE LET told == [done EXCEPT !.consecutiveErrors = @ + 1,
                                      !.onErrorCalls = @ + 1]
             IN  IF told.consecutiveErrors >= told.options.maxRetries
                 THEN pollStop(told)
                 ELSE told

(***************************************************************************)
(* The client tool dispatcher.                                             *)
(*   path "provider": updateMessage of the chat provider                   *)
(*                    (src/src/agent/actions.ts:51-99), which looks up a   *)
(*                    handler by function name and submits its result      *)
(*   path "agent":    the chat_messages listener of Agent.streamUntilIdle  *)
(*                    (src/src/http/stream.ts:462-479), which hands the    *)
(*                    invocation to options.onToolCall                     *)
(* td is the dispatched set, the current chat id, the handler promises not *)
(* yet settled and a record of handler calls and submitted results.        *)
(***************************************************************************)
MaxIds == 2             \* tool invocation ids
MaxResets == 1          \* reset() calls
MaxDepth == 1           \* nested (re-entrant) deliveries from inside a handler

Ids == 1..MaxIds
Chats == {1, 2}
Names == {"f", "g"}
\* invocation.function.name: the function an invocation id asks for
NameOf(id) == IF id = 1 THEN "f" ELSE "g"

\* What the handler registered for a name does when invoked:
\*   none      no handler is registered for the name
\*   returns   returns a string or a promise that resolves
\*   rejects   returns a promise that rejects
\*   throws    throws synchronously
\*   reenters  synchronously causes the same message to be delivered again,
\*             then returns
HandlerKinds == {"none", "returns", "rejects", "throws", "reenters"}
Paths == {"provider", "agent"}

Invocations ==
    [id : Ids, type : {"client", "server"},
     status : {"awaiting_input", "completed"}]

ToolMessages ==
    {[chat |-> c, invs |-> q] :
        c \in Chats,
        q \in {<<i>> : i \in Invocations} \cup
              {<<i, j>> : <<i, j>> \in {x \in Invocations \X Invocations :
                                            x[1].id # x[2].id}}}

\* src/src/agent/actions.ts:30 and src/src/http/stream.ts:293-296
NewDispatcher(path, handlers, chat) ==
    [path |-> path,
     handlers |-> handlers,
     chatId |-> chat,                   \* 0 is null
     dispatched |-> {},
     \* handler promises not yet settled, per invocation id
     running |-> [i \in Ids |-> 0],
     thrown |-> FALSE,                  \* the delivery in progress threw
     \* what happened
     resets |-> 0,
     everThrown |-> FALSE,
     delivered |-> [i \in Ids |-> 0],
     calls |-> [i \in Ids |-> 0],
     results |-> [i \in Ids |-> 0]]

TdIdle == NewDispatcher("provider", [n \in Names |-> "none"], 0)

\* clientToolHandlers.size (provider) / !!options.onToolCall (agent)
hasHandlers(t) == \E n \in Names : t.handlers[n] # "none"

\* api.submitToolResult(client, invocation.id, ...)
submitToolResult(t, id) == [t EXCEPT !.results[id] = @ + 1]

RECURSIVE updateMessageAt(_, _, _)

\* handler(args) / options.onToolCall(...): the call itself, and what the
\* handler does before it returns
invokeHandler(t, msg, inv, depth) ==
    LET called == [t EXCEPT !.calls[inv.id] = @ + 1]
    IN  IF t.handlers[NameOf(inv.id)] = "reenters" /\ depth > 0
        THEN updateMessageAt(called, msg, depth - 1)
        ELSE called

\* What is left once the handler call has returned or thrown
afterHandler(t, inv) ==
    IF t.handlers[NameOf(inv.id)] = "throws"
        THEN [t EXCEPT !.thrown = TRUE, !.everThrown = TRUE]
    ELSE IF t.path = "provider"
        THEN [t EXCEPT !.running[inv.id] = @ + 1]
    ELSE t

\* Mutant: the id is recorded only after the handler has been invoked
dispatchOne_MarkAfter(t, msg, inv, depth) ==
    IF t.path = "provider" /\ t.handlers[NameOf(inv.id)] = "none"
    THEN submitToolResult([t EXCEPT !.dispatched = @ \cup {inv.id}], inv.id)
    ELSE LET done == afterHandler(invokeHandler(t, msg, inv, depth), inv)
         IN  [done EXCEPT !.dispatched = @ \cup {inv.id}]

\* src/src/agent/actions.ts:69-95 and src/src/http/stream.ts:470-475:
\* one invocation that passed the type, status and already-dispatched tests
dispatchOne(t, msg, inv, depth) ==
    LET marked == [t EXCEPT !.dispatched = @ \cup {inv.id}]
    IN  IF t.path = "provider" /\ t.handlers[NameOf(inv.id)] = "none"
        THEN submitToolResult(marked, inv.id)
        ELSE afterHandler(invokeHandler(marked, msg, inv, depth), inv)

RECURSIVE dispatchLoop(_, _, _, _)
\* src/src/agent/actions.ts:60-97 and src/src/http/stream.ts:466-477: the
\* for loop over message.tool_invocations, left early by an exception
dispatchLoop(t, msg, i, depth) ==
    IF i > Len(msg.invs) \/ t.thrown THEN t
    ELSE LET inv == msg.invs[i]
         IN  IF /\ inv.type = "client"
                /\ inv.status = "awaiting_input"
                /\ inv.id \notin t.dispatched
             THEN dispatchLoop(dispatchOne(t, msg, inv, depth), msg, i + 1, depth)
             ELSE dispatchLoop(t, msg, i + 1, depth)

\* src/src/agent/actions.ts:51-99 (updateMessage) and
\* src/src/http/stream.ts:462-479 (the chat_messages listener)
updateMessageAt(t, msg, depth) ==
    IF t.path = "provider" /\ (msg.chat # t.chatId \/ t.chatId = 0) THEN t
    ELSE IF ~hasHandlers(t) THEN t
    ELSE dispatchLoop(t, msg, 1, depth)

\* One delivery from the transport: the exception, if any, ends in the
\* try/catch of the typed listener (src/src/http/stream.ts:83-95)
updateMessage(t, msg) ==
    [updateMessageAt(t, msg, MaxDepth) EXCEPT !.thrown = FALSE]

\* src/src/agent/actions.ts:87-95: the handler's promise settled
handlerSettled(t, id) ==
    submitToolResult([t EXCEPT !.running[id] = @ - 1], id)

\* src/src/agent/actions.ts:297-301 and src/src/http/stream.ts:429-433
reset(t) ==
    [t EXCEPT !.chatId = 0, !.dispatched = {}, !.resets = @ + 1]

(***************************************************************************)
(* Agent (src/src/http/stream.ts:288-556): the headless chat coordinator.  *)
(* ag is the agent object, the latest StreamManager and the latest         *)
(* PollManager it created (its channels), the sendMessage() call its owner *)
(* made last and the server's chats.  A channel is kept at the level the   *)
(* agent sees: stopped or not, source open or not, a poll in flight or     *)
(* not.  A channel the agent replaced is left out of the state: it was     *)
(* stopped first, or it is counted in orphans.                             *)
(***************************************************************************)
MaxSends == 2           \* sendMessage() calls
MaxStartStreams == 1    \* startStreaming() calls
MaxAgentResets == 1     \* reset() and disconnect() calls
MaxFiles == 1           \* blobs to upload in one sendMessage() call

\* chat.status: ChatStatusBusy or anything else
ChatStatuses == {"busy", "idle"}

\* new StreamManager(...) with the two listeners, or new PollManager(...):
\* the channel of one wait; wait is the sendMessage() call that awaits the
\* wait's promise (0: nobody, the promise of startStreaming() is dropped)
NewChannel(kind, callbacks, wait) ==
    [kind |-> kind,
     isStopped |-> FALSE,
     open |-> FALSE,                    \* stream: source obtained and wired
     polling |-> kind = "poll",         \* poll: start() polls at once
     prevStatus |-> "none",
     callbacks |-> callbacks,           \* options.onChat/onMessage/onToolCall
     wait |-> wait,
     \* a chat update with a status other than busy was observed; a
     \* callback was made after that
     idleSeen |-> FALSE,
     late |-> FALSE]

\* No channel of the kind was created yet
NoChannel == [NewChannel("none", FALSE, 0) EXCEPT !.isStopped = TRUE]

\* sendMessage(text, options): one call
NewSend(useStream, hasCallbacks, files) ==
    [pc |-> "upload",
     useStream |-> useStream,
     hasCallbacks |-> hasCallbacks,
     uploads |-> files,                 \* uploads not yet resolved
     uploadFailed |-> FALSE,
     body |-> 0,                        \* chat_id of the POST body
     waitPromise |-> "null",            \* null, pending or resolved
     response |-> [chat |-> 0, messages |-> 0],
     result |-> [chat |-> 0, messages |-> 0],
     log |-> <<>>]

NoSend == [NewSend(TRUE, FALSE, 0) EXCEPT !.pc = "none"]

\* src/src/http/stream.ts:293-296 (fields)
NewAgent ==
    [chatId |-> 0,                      \* 0 is null
     stream |-> NoChannel,              \* the latest StreamManager created
     streamRef |-> FALSE,               \* this.stream is not null
     poller |-> NoChannel,
     pollerRef |-> FALSE,
     dispatchedToolCalls |-> {},
     send |-> NoSend,                   \* the latest sendMessage() call
     \* what the owner and the server did
     sends |-> 0,
     chats |-> 0,                       \* chats the server created
     \* the server's chat: its status, the awaiting-input client invocation
     \* of its last message (0: none) and the invocations it made
     server |-> [status |-> "idle", awaiting |-> 0, toolCalls |-> 0],
     startStreams |-> 0,
     resets |-> 0,
     orphans |-> 0]                     \* channels replaced while not stopped

AgIdle == NewAgent

\* this.stream?.stop() (lines 142-145)
stopStreamRef(a) ==
    IF a.streamRef THEN [a EXCEPT !.stream.isStopped = TRUE] ELSE a

\* this.poller?.stop() (src/src/client.ts:674-679)
stopPollerRef(a) ==
    IF a.pollerRef THEN [a EXCEPT !.poller.isStopped = TRUE] ELSE a

\* this.stream = new StreamManager(...); ...; this.stream.connect()
setStream(a, callbacks, wait) ==
    [a EXCEPT !.stream = NewChannel("stream", callbacks, wait),
              !.streamRef = TRUE,
              !.orphans = IF a.stream.isStopped THEN @ ELSE @ + 1]

\* this.poller = new PollManager(...); this.poller.start()
setPoller(a, callbacks, wait) ==
    [a EXCEPT !.poller = NewChannel("poll", callbacks, wait),
              !.pollerRef = TRUE,
              !.orphans = IF a.poller.isStopped THEN @ ELSE @ + 1]

\* src/src/http/stream.ts:444-483
streamUntilIdle(a, callbacks, wait) ==
    IF a.chatId = 0 THEN a ELSE setStream(stopStreamRef(a), callbacks, wait)

\* src/src/http/stream.ts:486-555
pollUntilIdle(a, callbacks, wait) ==
    IF a.chatId = 0 THEN a ELSE setPoller(stopPollerRef(a), callbacks, wait)

\* src/src/http/stream.ts:438-441
startStreaming(a, callbacks) ==
    IF a.chatId = 0 THEN a ELSE streamUntilIdle(a, callbacks, 0)

\* src/src/http/stream.ts:421-426
disconnect(a) ==
    [stopPollerRef(stopStreamRef(a)) EXCEPT !.streamRef = FALSE, !.pollerRef = FALSE]

\* src/src/http/stream.ts:429-433
agentReset(a) ==
    [disconnect(a) EXCEPT !.chatId = 0, !.dispatchedToolCalls = {}]

\* resolve() of a wait's promise: it settles the promise the latest
\* sendMessage() call awaits if that is the one
resolveWait(a, wait) ==
    IF wait # 0 /\ wait = a.sends /\ a.send.waitPromise = "pending"
    THEN [a EXCEPT !.send.waitPromise = "resolved"]
    ELSE a

\* A callback of the stream wait's options is called, if registered
streamCallback(a) ==
    IF a.stream.callbacks
    THEN [a EXCEPT !.stream.late = @ \/ a.stream.idleSeen]
    ELSE a

\* A callback of the poll wait's options is called, if registered
pollCallback(a) ==
    IF a.poller.callbacks
    THEN [a EXCEPT !.poller.late = @ \/ a.poller.idleSeen]
    ELSE a

\* src/src/http/stream.ts:455-460 behind the closure of lines 81-96
chatsListener(a, status) ==
    IF a.stream.isStopped THEN a
    ELSE LET told == streamCallback(a)
         IN  IF status # "busy"
             THEN resolveWait([told EXCEPT !.stream.idleSeen = TRUE],
                              a.stream.wait)
             ELSE told

\* src/src/http/stream.ts:462-479 behind the closure of lines 81-96: inv = 0
\* is a message without tool invocations, else the id of an awaiting-input
\* client invocation
messagesListener(a, inv) ==
    IF a.stream.isStopped THEN a
    ELSE LET told == streamCallback(a)
         IN  IF /\ inv # 0
                /\ a.stream.callbacks
                /\ inv \notin a.dispatchedToolCalls
             THEN streamCallback(
                      [told EXCEPT !.dispatchedToolCalls = @ \cup {inv}])
             ELSE told

\* connect() after createEventSource() resolved (lines 176-183)
sourceResolved(a) ==
    IF a.stream.isStopped THEN a ELSE [a EXCEPT !.stream.open = TRUE]

\* PollManager.poll() from the interval timer (src/src/client.ts:692-696)
agentPollBegin(a) ==
    IF a.poller.isStopped \/ a.poller.polling THEN a
    ELSE [a EXCEPT !.poller.polling = TRUE]

\* src/src/http/stream.ts:508-547: onData of the wait's PollManager
agentPollData(a, status, inv) ==
    IF status = a.poller.prevStatus THEN a
    ELSE LET noted == [a EXCEPT !.poller.prevStatus = status]
             told == pollCallback(pollCallback(noted))
             called == IF /\ inv # 0
                          /\ a.poller.callbacks
                          /\ inv \notin a.dispatchedToolCalls
                       THEN pollCallback([told EXCEPT
                                !.dispatchedToolCalls = @ \cup {inv}])
                       ELSE told
         IN  IF status # "busy"
             THEN resolveWait(
                      [stopPollerRef([called EXCEPT !.poller.idleSeen = TRUE])
                          EXCEPT !.pollerRef = FALSE],
                      a.poller.wait)
             ELSE called

\* pollFunction() resolved (src/src/http/stream.ts:497-506 and
\* src/src/client.ts:696-700)
agentPollResolved(a, status, inv) ==
    LET done == [a EXCEPT !.poller.polling = FALSE]
    IN  IF a.poller.isStopped THEN done
        ELSE agentPollData(done, status, inv)

\* src/src/http/stream.ts:361
shouldWait(s) == ~s.useStream \/ s.hasCallbacks

\* waitPromise = waitFn(options) (lines 362-364, 369 and 384)
armWait(a) ==
    LET a1 == IF a.send.useStream
              THEN streamUntilIdle(a, a.send.hasCallbacks, a.sends)
              ELSE pollUntilIdle(a, a.send.hasCallbacks, a.sends)
    IN  [a1 EXCEPT !.send.waitPromise = "pending",
                   !.send.log = Append(@, "armed")]

\* src/src/http/stream.ts:366-370
armExisting(a) ==
    IF a.chatId # 0 /\ shouldWait(a.send) THEN armWait(a) ELSE a

\* src/src/http/stream.ts:347-358 and 373-377: the POST is issued
issuePost(a) ==
    [a EXCEPT !.send.pc = "post",
              !.send.body = a.chatId,
              !.send.log = Append(@, "post")]

\* Mutant: the wait of an existing chat is armed after the POST is issued
sendIssue_PostFirst(a) == armExisting(issuePost(a))

\* src/src/http/stream.ts:347-377: from the request body to the POST's await
sendIssue(a) == issuePost(armExisting(a))

\* src/src/http/stream.ts:312-345: sendMessage() up to its first await
sendBegin(a, useStream, hasCallbacks, files) ==
    LET a1 == [a EXCEPT !.send = NewSend(useStream, hasCallbacks, files),
                        !.sends = @ + 1]
    IN  IF files > 0 THEN a1 ELSE sendIssue(a1)

\* One upload of the Promise.all of line 336 resolved
uploadResolved(a) ==
    LET a1 == [a EXCEPT !.send.uploads = @ - 1]
    IN  IF a1.send.uploads = 0 THEN sendIssue(a1) ELSE a1

\* One upload rejected: Promise.all rejects and sendMessage() throws
uploadRejected(a) ==
    [a EXCEPT !.send.pc = "failed", !.send.uploadFailed = TRUE]

\* src/src/http/stream.ts:393
sendReturn(a) ==
    [a EXCEPT !.send.pc = "done",
              !.send.result = a.send.response,
              !.send.log = Append(@, "returned")]

\* src/src/http/stream.ts:379-391: the POST resolved
postResolved(a, response) ==
    LET a1 == [a EXCEPT !.send.response = response,
                        !.send.log = Append(@, "postReturned")]
        isNewChat == a.chatId = 0 /\ response.chat # 0
        a2 == IF isNewChat
              THEN LET a3 == [a1 EXCEPT !.chatId = response.chat]
                   IN  IF shouldWait(a.send) THEN armWait(a3) ELSE a3
              ELSE a1
    IN  IF a2.send.waitPromise # "null"
        THEN [a2 EXCEPT !.send.pc = "wait"]
        ELSE sendReturn(a2)

\* The POST rejected: sendMessage() throws
postRejected(a) == [a EXCEPT !.send.pc = "failed"]

(***************************************************************************)
(* The chat provider (src/src/agent/actions.ts, reducer.ts, provider.tsx   *)
(* and the agent api helpers of src/src/proxy/nextjs.ts).  pv is the       *)
(* reducer state, the provider's refs, the latest update manager it        *)
(* created, its sendMessage() call in progress and the fetches in flight.  *)
(* The server has one chat, of id 1, with one message, of id 1.            *)
(***************************************************************************)
MaxProviderSends == 2   \* sendMessage() calls on the provider
MaxProviderResets == 1  \* reset() calls on the provider
MaxFetches == 1         \* fetchChat() calls of one poller in flight
MaxStopGenerations == 1 \* stopGeneration() calls on the provider
MaxSetChatIds == 1      \* changes of the provider's chatId prop

\* A ChatDTO as fetched or streamed; NoChat is null
ChatDTOs == [id : {1}, status : ChatStatuses, chat_messages : {{}, {1}}]
NoChat == [id |-> 0, status |-> "idle", chat_messages |-> {}]

\* new StreamManager(...) (actions.ts:132-156) / new PollManager(...)
\* (actions.ts:176-215)
NewManager(kind) ==
    [kind |-> kind,
     isStopped |-> FALSE,
     open |-> FALSE,                    \* stream: source obtained and wired
     polling |-> FALSE,                 \* poll: pollFunction() in flight
     prevStatus |-> "none",
     fetching |-> 0]                    \* poll: onData calls awaiting fetchChat

NoManager == [NewManager("none") EXCEPT !.isStopped = TRUE]

\* api.sendMessage(client, config, chatId, text, files): one call
NewProviderSend(chatId, files) ==
    [pc |-> "upload",
     chatId |-> chatId,                 \* getChatId() when called
     files |-> files,                   \* files still to upload
     attached |-> 0,                    \* uris collected
     uploadFailed |-> FALSE,
     posted |-> FALSE]

NoProviderSend == [NewProviderSend(0, 0) EXCEPT !.pc = "none"]

\* src/src/agent/reducer.ts:14-21 and src/src/agent/provider.tsx:67-77
NewProvider(streamEnabled) ==
    [streamEnabled |-> streamEnabled,
     \* reducer state
     chatId |-> 0, chat |-> NoChat, messages |-> {}, status |-> "idle",
     \* refs
     chatIdRef |-> 0,
     managerRef |-> FALSE,              \* streamManagerRef.current is set
     manager |-> NoManager,             \* the latest manager created
     dispatchedToolInvocations |-> {},
     send |-> NoProviderSend,
     streamFetches |-> 0,               \* streamChat() calls awaiting fetchChat
     stopChats |-> 0,                   \* api.stopChat() calls not yet settled
     \* what the owner did
     sends |-> 0, resets |-> 0, stops |-> 0, setChatIds |-> 0,
     orphans |-> 0,                     \* managers replaced while not stopped
     \* reset() returned and the owner has not acted since; what was
     \* dispatched or called back since
     fresh |-> FALSE, stale |-> {}]

PvIdle == NewProvider(TRUE)

\* Record of a state update or callback made while fresh
sinceReset(p, what) ==
    IF p.fresh THEN [p EXCEPT !.stale = @ \cup {what}] ELSE p

\* src/src/agent/reducer.ts:29-30
SET_CHAT_ID(p, id) == sinceReset([p EXCEPT !.chatId = id], "SET_CHAT_ID")

\* src/src/agent/reducer.ts:32-41 (a chat that is not null)
SET_CHAT(p, chat) ==
    sinceReset([p EXCEPT !.chat = chat,
                         !.messages = chat.chat_messages,
                         !.status = IF chat.status = "busy"
                                    THEN "streaming" ELSE "idle"],
               "SET_CHAT")

\* src/src/agent/reducer.ts:46-57
UPDATE_MESSAGE(p, message) ==
    sinceReset([p EXCEPT !.messages = @ \cup {message}], "UPDATE_MESSAGE")

\* src/src/agent/reducer.ts:65-73 (SET_STATUS, SET_IS_GENERATING)
SET_STATUS(p, status) == sinceReset([p EXCEPT !.status = status], "SET_STATUS")

\* src/src/agent/reducer.ts:78-79
RESET(p) ==
    [p EXCEPT !.chatId = 0, !.chat = NoChat, !.messages = {}, !.status = "idle"]

\* callbacks.onStatusChange?.() / onChatCreated?.() / onError?.()
providerCallback(p) == sinceReset(p, "callback")

\* src/src/agent/actions.ts:43-49
setChat(p, chat) == providerCallback(SET_CHAT(p, chat))

\* src/src/agent/actions.ts:51-99: a message of chat 1; inv = 0 is a message
\* without tool invocations, else an awaiting-input client invocation
providerUpdateMessage(p, message, inv) ==
    IF p.chatIdRef # 1 THEN p
    ELSE LET shown == UPDATE_MESSAGE(p, message)
         IN  IF inv # 0 /\ inv \notin p.dispatchedToolInvocations
             THEN sinceReset([shown EXCEPT
                                 !.dispatchedToolInvocations = @ \cup {inv}],
                             "toolCall")
             ELSE shown

\* src/src/agent/actions.ts:145-155 and 201-208: onStop of a manager
managerOnStop(p) ==
    IF p.managerRef
    THEN providerCallback(SET_STATUS([p EXCEPT !.managerRef = FALSE], "idle"))
    ELSE p

\* manager.stop() on the latest manager (src/src/http/stream.ts:142-145,
\* src/src/client.ts:674-679)
managerStop(p) ==
    IF p.manager.kind = "poll" /\ p.manager.isStopped THEN p
    ELSE managerOnStop([p EXCEPT !.manager.isStopped = TRUE])

\* manager.connect() up to its await (src/src/http/stream.ts:168-175)
managerConnect(p) ==
    IF p.manager.isStopped THEN p
    ELSE [managerOnStop(p) EXCEPT !.manager.isStopped = FALSE]

\* src/src/agent/actions.ts:221-231
stopStream(p) ==
    LET p1 == [p EXCEPT !.managerRef = FALSE]
        p2 == IF p.managerRef THEN managerStop(p1) ELSE p1
    IN  providerCallback(SET_STATUS(p2, "idle"))

\* src/src/agent/actions.ts:101-113: streamChat(id) up to its await
streamChat(p) ==
    LET p1 == IF p.managerRef THEN managerStop(p) ELSE p
        p2 == [p1 EXCEPT !.managerRef = FALSE]
        p3 == providerCallback(SET_STATUS(p2, "connecting"))
    IN  [p3 EXCEPT !.streamFetches = @ + 1]

\* setStreamManager(manager) with a new manager
setStreamManager(p, kind) ==
    [p EXCEPT !.manager = NewManager(kind),
              !.managerRef = TRUE,
              !.orphans = IF p.manager.isStopped THEN @ ELSE @ + 1]

\* src/src/agent/actions.ts:173-219
pollChat(p) ==
    LET p1 == setStreamManager(p, "poll")
    IN  providerCallback(SET_STATUS([p1 EXCEPT !.manager.polling = TRUE],
                                    "streaming"))

\* src/src/agent/actions.ts:113-170: streamChat(id) after fetchChat
streamChatFetched(p, chat) ==
    LET p1 == [p EXCEPT !.streamFetches = @ - 1]
        p2 == IF chat # NoChat THEN setChat(p1, chat) ELSE p1
    IN  IF ~p.streamEnabled THEN pollChat(p2)
        ELSE managerConnect(setStreamManager(p2, "stream"))

\* connect() after createEventSource() resolved, and the onStart of
\* actions.ts:141-144
providerSourceResolved(p) ==
    IF p.manager.isStopped THEN p
    ELSE providerCallback(SET_STATUS([p EXCEPT !.manager.open = TRUE],
                                     "streaming"))

\* src/src/agent/actions.ts:159-161 behind the closure of stream.ts:81-96
providerChatsListener(p, chat) ==
    IF p.manager.isStopped THEN p ELSE setChat(p, chat)

\* src/src/agent/actions.ts:164-166 behind the closure of stream.ts:81-96
providerMessagesListener(p, inv) ==
    IF p.manager.isStopped THEN p ELSE providerUpdateMessage(p, 1, inv)

\* PollManager.poll() from the interval timer (src/src/client.ts:692-696)
providerPollBegin(p) ==
    IF p.manager.isStopped \/ p.manager.polling THEN p
    ELSE [p EXCEPT !.manager.polling = TRUE]

\* pollFunction() resolved (src/src/client.ts:696-700) and the onData of
\* actions.ts:179-184 up to its await
providerPollResolved(p, status) ==
    LET done == [p EXCEPT !.manager.polling = FALSE]
    IN  IF p.manager.isStopped \/ status = p.manager.prevStatus THEN done
        ELSE [done EXCEPT !.manager.prevStatus = status,
                          !.manager.fetching = @ + 1]

RECURSIVE updateMessages(_, _, _)
\* src/src/agent/actions.ts:188-192
updateMessages(p, messages, inv) ==
    IF messages = {} THEN p
    ELSE LET m == CHOOSE x \in messages : TRUE
         IN  updateMessages(providerUpdateMessage(p, m, inv),
                            messages \ {m}, inv)

\* src/src/agent/actions.ts:184-192: onData after fetchChat
providerPollFetched(p, chat, inv) ==
    LET p1 == [p EXCEPT !.manager.fetching = @ - 1]
    IN  IF chat = NoChat THEN p1
        ELSE updateMessages(setChat(p1, chat), chat.chat_messages, inv)

\* src/src/proxy/nextjs.ts:313-317: the POST is issued
providerPost(p) ==
    [p EXCEPT !.send.pc = "post", !.send.posted = TRUE]

\* src/src/proxy/nextjs.ts:291-298: the upload of one file rejected
providerUploadRejected(p) ==
    LET p1 == [p EXCEPT !.send.files = @ - 1, !.send.uploadFailed = TRUE]
    IN  IF p1.send.files = 0 THEN providerPost(p1) ELSE p1

\* src/src/proxy/nextjs.ts:291-295: the upload of one file resolved
providerUploadResolved(p) ==
    LET p1 == [p EXCEPT !.send.files = @ - 1, !.send.attached = @ + 1]
    IN  IF p1.send.files = 0 THEN providerPost(p1) ELSE p1

\* src/src/agent/actions.ts:238-255 and src/src/proxy/nextjs.ts:269-290
providerSendBegin(p, files) ==
    LET p1 == SET_STATUS([p EXCEPT !.send = NewProviderSend(p.chatIdRef, files),
                                   !.sends = @ + 1],
                         "streaming")
    IN  IF files > 0 THEN p1 ELSE providerPost(p1)

\* src/src/agent/actions.ts:257-269: the POST resolved with chat 1
providerPostResolved(p) ==
    LET p1 == [p EXCEPT !.send.pc = "done"]
    IN  IF ~p.managerRef
        THEN streamChat(IF p.send.chatId = 0
                        THEN providerCallback(SET_CHAT_ID(p1, 1))
                        ELSE p1)
        ELSE p1

\* src/src/agent/actions.ts:276-282: the POST rejected
providerPostRejected(p) ==
    providerCallback(SET_STATUS([p EXCEPT !.send.pc = "failed"], "error"))

\* src/src/agent/actions.ts:289-295 and src/src/proxy/nextjs.ts:335-341
stopGeneration(p) ==
    LET stopped == stopStream(p)
    IN  IF p.chatIdRef # 0
        THEN [stopped EXCEPT !.stopChats = @ + 1]
        ELSE stopped

\* src/src/agent/actions.ts:371-384: setChatId(newChatId), 0 is null
setChatId(p, newChatId) ==
    IF newChatId = p.chatIdRef THEN p
    ELSE IF newChatId = 0
        THEN RESET([stopStream(p) EXCEPT !.dispatchedToolInvocations = {}])
    ELSE streamChat(SET_CHAT_ID(p, newChatId))

\* src/src/agent/actions.ts:297-301
providerReset(p) ==
    RESET([stopStream(p) EXCEPT !.dispatchedToolInvocations = {}])

(***************************************************************************)
(* The stream specification: one StreamManager, its owner and its sources. *)
(***************************************************************************)
\* What the owner registers: a test harness picks onData/onPartialData;
\* TasksAPI.run always registers both and forwards to the caller's
\* onUpdate/onPartialUpdate.
StreamConfigs ==
    {<<o, mode>> \in Options \X Modes :
        /\ mode \in {"plain", "run"}
        /\ o.stopIn = "none"
        /\ IF mode = "plain"
           THEN ~o.onUpdate /\ ~o.onPartialUpdate
           ELSE o.onData /\ o.onPartialData}

PlainBodies == {[status |-> "Running", error |-> ""]}

StreamMessages(m) ==
    IF m.mode = "plain"
        THEN [shape : Shapes, body : PlainBodies]
    ELSE IF m.mode = "hooked"
        THEN [shape : {"full", "wrapper", "invalid"}, body : PlainBodies]
    ELSE [shape : {"full", "wrapper", "invalid"}, body : Bodies]


\* The faults the environment has produced so far
Faults(m) == m.errors + m.rejects + m.nulls

InitStream ==
    /\ \E c \in StreamConfigs : sm = NewStreamManager(c[1], c[2])
    /\ pm = PmIdle
    /\ td = TdIdle
    /\ td2 = TdIdle
    /\ ag = AgIdle
    /\ pv = PvIdle

\* The owner calls connect(); TasksAPI.run calls it once (tasks.ts:168)
UserConnect ==
    /\ sm.userConnects < MaxUserConnects
    /\ sm.mode = "run" => sm.userConnects = 0
    /\ sm' = connectBegin([sm EXCEPT !.userConnects = @ + 1, !.last = "connect"])
    /\ UNCHANGED <<pm, td, td2, ag, pv>>

\* The owner calls stop()
UserStop ==
    /\ sm.mode # "run"
    /\ sm.userStops < MaxUserStops
    /\ sm' = stop([sm EXCEPT !.userStops = @ + 1, !.last = "stop"])
    /\ UNCHANGED <<pm, td, td2, ag, pv>>

CreateResolved ==
    /\ sm.pending > 0
    /\ sm' = connectResolved(sm, sm.created + 1)
    /\ UNCHANGED <<pm, td, td2, ag, pv>>

CreateNull ==
    /\ sm.pending > 0
    /\ Faults(sm) < MaxFaults
    /\ sm' = connectNull(sm)
    /\ UNCHANGED <<pm, td, td2, ag, pv>>

CreateRejected ==
    /\ sm.pending > 0
    /\ Faults(sm) < MaxFaults
    /\ sm' = connectRejected(sm)
    /\ UNCHANGED <<pm, td, td2, ag, pv>>

\* A source delivers a message event to the handler connect() installed on
\* it.  The handler is never removed, so an event that was already queued
\* when the source was closed reaches it too (src/src/stream.test.ts:154-166).
SourceMessage ==
    /\ sm.wired # {}
    /\ \E msg \in StreamMessages(sm) : sm' = onmessage(sm, msg)
    /\ UNCHANGED <<pm, td, td2, ag, pv>>

\* An open source raises an error event (the handler acts on the manager,
\* whichever source raised it)
SourceError ==
    /\ Faults(sm) < MaxFaults
    /\ sm.wired \cap sm.open # {}
    /\ sm' = onerror([sm EXCEPT !.errors = @ + 1])
    /\ UNCHANGED <<pm, td, td2, ag, pv>>

\* The timer this.reconnectTimeout names fires
ReconnectTimerFires ==
    /\ sm.reconnectTimeout
    /\ sm' = reconnectTimer([sm EXCEPT !.reconnectTimeout = FALSE])
    /\ UNCHANGED <<pm, td, td2, ag, pv>>

\* A reconnect timer whose handle was overwritten fires (nothing clears it)
LeakedTimerFires ==
    /\ sm.leakedTimers > 0
    /\ sm' = reconnectTimer([sm EXCEPT !.leakedTimers = @ - 1])
    /\ UNCHANGED <<pm, td, td2, ag, pv>>

NextStream ==
    \/ UserConnect
    \/ UserStop
    \/ CreateResolved
    \/ CreateNull
    \/ CreateRejected
    \/ SourceMessage
    \/ SourceError
    \/ ReconnectTimerFires
    \/ LeakedTimerFires

Spec == InitStream /\ [][NextStream]_vars

(***************************************************************************)
(* Claims about the stream channel and the waiting run.                    *)
(***************************************************************************)
Call(cb, arg, fields) == [cb |-> cb, arg |-> arg, fields |-> fields]

\* C10: default-message dispatch.  For the message last handled: a message
\* of Partial shape (data plus array-typed fields) calls
\* onPartialData(data, fields) and not onData when onPartialData is
\* registered, otherwise onData with the unwrapped data; any other parsed
\* message calls onData with the message as parsed and never onPartialData.
C10_DefaultDispatch ==
    Parses(sm.msg) =>
        IF sm.msg.shape = "wrapper"
        THEN IF sm.options.onPartialData
                 THEN sm.calls = <<Call("onPartialData", Inner(sm.msg), TRUE)>>
             ELSE IF sm.options.onData
                 THEN sm.calls = <<Call("onData", Inner(sm.msg), FALSE)>>
             ELSE sm.calls = <<>>
        ELSE IF sm.options.onData
                 THEN sm.calls = <<Call("onData", Envelope(sm.msg), FALSE)>>
             ELSE sm.calls = <<>>

\* A Partial message reached an owner who registered both callbacks
C10_Witness ==
    /\ sm.mode = "plain"
    /\ sm.msg.shape = "wrapper"
    /\ sm.options.onData /\ sm.options.onPartialData
    /\ Len(sm.calls) = 1
    /\ sm.calls[1].cb = "onPartialData"

\* C2: a waiting run settles exactly once, according to the first terminal
\* status its callbacks observe: Completed resolves with that snapshot,
\* Failed rejects with the server's error or 'task failed', Cancelled
\* rejects with 'task cancelled'; settling stops the channel, no update
\* callback fires after settlement and no second resolve/reject is made.
C2_SettlesOnce ==
    sm.mode = "run" =>
        /\ sm.settleCalls <= 1
        /\ sm.lateUpdates = 0
        /\ sm.promise # "pending" => sm.isStopped
        /\ sm.terminalSeen.status = "Completed" =>
               sm.promise = "resolved" /\ sm.value = sm.terminalSeen
        /\ sm.terminalSeen.status = "Failed" =>
               /\ sm.promise = "rejected"
               /\ sm.value.error =
                      IF sm.terminalSeen.error = "" THEN "task failed"
                      ELSE sm.terminalSeen.error
        /\ sm.terminalSeen.status = "Cancelled" =>
               sm.promise = "rejected" /\ sm.value.error = "task cancelled"

\* The run saw Queued, Running, Completed and resolved with Completed
C2_Witness ==
    /\ sm.mode = "run"
    /\ sm.options.onUpdate
    /\ sm.seen = {"Queued", "Running", "Completed"}
    /\ sm.promise = "resolved"
    /\ sm.value.status = "Completed"

TerminalReasons == {"task failed", "task cancelled", "boom"}

\* C3 (as claimed): with autoReconnect enabled, a waiting run is rejected
\* only by a Failed/Cancelled status or once the reconnect budget is
\* exhausted, never by a transport error or an unparseable message alone.
C3_TransportErrorNeverRejects ==
    (/\ sm.mode = "run"
     /\ sm.options.autoReconnect /\ sm.options.maxReconnects >= 1
     /\ sm.promise = "rejected") =>
        \/ sm.value.error \in TerminalReasons
        \/ /\ sm.onStartCalls = 0
           /\ sm.initialConnectionAttempts >= sm.options.maxReconnects

\* The channel was connected once by its owner, never stopped by the owner,
\* and every createEventSource() call so far was rejected or is pending
NeverConnects ==
    /\ sm.mode = "plain"
    /\ sm.options.autoReconnect
    /\ sm.userConnects = 1 /\ sm.userStops = 0
    /\ sm.created = 0 /\ sm.nulls = 0

\* C4: with maxReconnects = N and createEventSource() always rejecting there
\* are exactly N reconnect attempts after the first failure (N+1 calls in
\* all); the channel then stops, onStop fires on that last failure, and no
\* timer or call is left that could make another attempt.
C4_BoundedInitialAttempts ==
    NeverConnects =>
        /\ sm.createCalls <= sm.options.maxReconnects + 1
        /\ sm.initialConnectionAttempts = sm.createCalls - 1
        /\ sm.isStopped <=>
               (sm.rejects = sm.options.maxReconnects + 1)
        /\ sm.isStopped =>
               /\ sm.createCalls = sm.options.maxReconnects + 1
               /\ sm.onStopAt = "reject"
               /\ ~sm.reconnectTimeout /\ sm.leakedTimers = 0 /\ sm.pending = 0

\* maxReconnects = 2: three rejected calls, then stopped
C4_Witness ==
    /\ NeverConnects
    /\ sm.options.maxReconnects = 2
    /\ sm.createCalls = 3
    /\ sm.isStopped

\* C5 (as claimed): after a first successful connection every transport
\* error is followed by a reconnect, so the channel never stops by itself.
C5_PostSuccessAlwaysRetries ==
    (/\ sm.mode = "plain"
     /\ sm.options.autoReconnect /\ sm.options.maxReconnects >= 1
     /\ sm.userStops = 0 /\ sm.nulls = 0
     /\ sm.onStartCalls >= 1) => ~sm.isStopped

\* C6 (as claimed): a transport error on a connected channel stops the
\* channel when autoReconnect is false, and no createEventSource() call is
\* ever made except by the owner's connect(); with autoReconnect true the
\* error arms the reconnect timer and the channel is not stopped.
C6_ErrorPolicy ==
    (sm.mode = "plain" /\ sm.options.maxReconnects >= 1) =>
        /\ ~sm.options.autoReconnect => sm.createCalls <= sm.userConnects
        /\ sm.last = "error" =>
               IF sm.options.autoReconnect
               THEN sm.reconnectTimeout /\ ~sm.isStopped
               ELSE sm.isStopped /\ ~sm.reconnectTimeout

\* C7 (as claimed): onStop is invoked exactly once in the channel's life,
\* when it actually stops, and never by connect() or by a transport error
\* that is followed by a reconnect.
C7_OnStopExactlyOnce ==
    sm.mode = "plain" =>
        /\ sm.onStopCalls <= 1
        /\ sm.onStopCalls = 1 => sm.isStopped

\* C20 (as claimed): createSource() returning null is handled like a
\* rejection: the channel is left reconnecting or stopped, never silently
\* neither connected, nor reconnecting, nor stopped.
C20_NullSourceRetried ==
    (sm.last = "null" /\ sm.mode = "plain") =>
        sm.isConnected \/ sm.reconnectTimeout \/ sm.isStopped

\* C21 (as claimed): connect() is idempotent while the channel is connecting
\* or connected: a second connect() call by the owner in either state makes
\* no createEventSource() call, closes no source, and the channel has
\* exactly one transport (open or being created) afterwards.
C21_ConnectIdempotent ==
    [][(/\ sm.mode = "plain"
        /\ sm'.userConnects = sm.userConnects + 1
        /\ ~sm.isStopped
        /\ sm.pending > 0 \/ sm.isConnected) =>
           /\ sm'.createCalls = sm.createCalls
           /\ sm'.open = sm.open
           /\ Cardinality(sm'.open) + sm'.pending = 1]_vars

\* C28 (as claimed): stop() leaves no transport open.  Once the channel is
\* stopped and no createEventSource() call is pending, every source it ever
\* obtained has been closed, also one whose promise was pending when stop()
\* was called and one obtained by an overlapping earlier connect().
C28_StopClosesEverySource ==
    (sm.mode = "plain" /\ sm.isStopped /\ sm.pending = 0) => sm.open = {}

\* C11 (as claimed): during a waiting run no update is silently dropped for a
\* caller who registered at least one update callback: every Full and every
\* Partial message handled before settlement calls a registered callback of
\* the caller (onUpdate also for a Partial message when it is the only one,
\* onPartialUpdate also for a Full message when it is the only one).
C11_NoUpdateDropped ==
    (/\ sm.mode = "run"
     /\ Parses(sm.msg)
     /\ sm.options.onUpdate \/ sm.options.onPartialUpdate) =>
        sm.notified >= 1

(***************************************************************************)
(* The hooked specification: one StreamManager whose owner registers typed *)
(* listeners and calls stop() from inside one of its callbacks.            *)
(***************************************************************************)
MaxListeners == 2       \* addEventListener() calls made by the owner

HookConfigs ==
    {o \in Options :
        /\ o.onData /\ o.onPartialData
        /\ ~o.onUpdate /\ ~o.onPartialUpdate
        /\ o.stopIn # "none"}

InitHooks ==
    /\ \E o \in HookConfigs : sm = NewStreamManager(o, "hooked")
    /\ pm = PmIdle
    /\ td = TdIdle
    /\ td2 = TdIdle
    /\ ag = AgIdle
    /\ pv = PvIdle

\* The owner registers one more callback for the event name
AddListener ==
    /\ sm.eventListeners < MaxListeners
    /\ sm' = addEventListener([sm EXCEPT !.last = "listen"])
    /\ UNCHANGED <<pm, td, td2, ag, pv>>

\* A source dispatches a typed event to the closures installed on it (they
\* are never removed, as the message handler)
SourceEvent ==
    /\ \E source \in sm.wired :
           /\ sm.closures[source] > 0
           /\ \E msg \in StreamMessages(sm) : sm' = onevent(sm, source, msg)
    /\ UNCHANGED <<pm, td, td2, ag, pv>>

NextHooks ==
    \/ UserConnect
    \/ UserStop
    \/ AddListener
    \/ CreateResolved
    \/ CreateNull
    \/ CreateRejected
    \/ SourceMessage
    \/ SourceEvent
    \/ SourceError
    \/ ReconnectTimerFires
    \/ LeakedTimerFires

SpecHooks == InitHooks /\ [][NextHooks]_vars

\* C12 (as claimed): a stopped channel is inert forever.  Once stop() has
\* been called, also from inside one of the channel's own callbacks, no
\* onData, onPartialData, typed-listener or onStart call and no
\* createEventSource() call is made, whatever arrives later.
C12_StoppedIsInert ==
    sm.afterStop = {}

\* C22 (as claimed): typed-event delivery is exactly-once per registered
\* callback.  For the event a source delivered last to a channel on which
\* stop() was never called, each callback registered for the event name,
\* before or after connect(), was called exactly once.
C22_TypedExactlyOnce ==
    (sm.last = "event" /\ Parses(sm.msg) /\ ~sm.stopCalled) =>
        Len(sm.calls) = sm.eventListeners

(***************************************************************************)
(* The lingering specification: one StreamManager whose owner schedules    *)
(* and cancels deferred stops.  createEventSource() never resolves with    *)
(* null here.                                                              *)
(***************************************************************************)
MaxStopAfters == 2      \* stopAfter() calls made by the owner

LingerConfigs ==
    {o \in Options :
        /\ ~o.onData /\ ~o.onPartialData
        /\ ~o.onUpdate /\ ~o.onPartialUpdate
        /\ o.stopIn = "none"}

InitLinger ==
    /\ \E o \in LingerConfigs : sm = NewStreamManager(o, "plain")
    /\ pm = PmIdle
    /\ td = TdIdle
    /\ td2 = TdIdle
    /\ ag = AgIdle
    /\ pv = PvIdle

\* The owner calls stopAfter(delayMs)
UserStopAfter ==
    /\ sm.stopAfters < MaxStopAfters
    /\ sm' = stopAfter([sm EXCEPT !.stopAfters = @ + 1,
                                  !.reconnectBefore = sm.reconnectTimeout,
                                  !.last = "stopAfter"])
    /\ UNCHANGED <<pm, td, td2, ag, pv>>

\* The owner calls clearStopTimeout(); "cancelled" when nothing happened
\* since the stopAfter() call
UserClearStopTimeout ==
    /\ sm.last # "cancelled"
    /\ sm' = clearStopTimeout([sm EXCEPT !.last = IF sm.last = "stopAfter"
                                                  THEN "cancelled"
                                                  ELSE "clearStop"])
    /\ UNCHANGED <<pm, td, td2, ag, pv>>

\* The timer this.stopTimeout names fires: () => this.stop()
StopTimerFires ==
    /\ sm.stopTimeout
    /\ sm' = stop([sm EXCEPT !.stopTimeout = FALSE, !.last = "stopTimer"])
    /\ UNCHANGED <<pm, td, td2, ag, pv>>

NextLinger ==
    \/ UserConnect
    \/ UserStop
    \/ UserStopAfter
    \/ UserClearStopTimeout
    \/ StopTimerFires
    \/ CreateResolved
    \/ CreateRejected
    \/ SourceError
    \/ ReconnectTimerFires
    \/ LeakedTimerFires

SpecLinger == InitLinger /\ [][NextLinger]_vars

\* C30 (as claimed): stopAfter(d) followed at once by clearStopTimeout()
\* changes nothing else: a reconnect that was pending when stopAfter() was
\* called is still pending, and the channel is not left neither connected,
\* nor connecting, nor reconnecting, nor stopped.
C30_CancelledStopChangesNothing ==
    sm.last = "cancelled" =>
        /\ sm.reconnectTimeout = sm.reconnectBefore
        /\ sm.reconnectBefore =>
               sm.isConnected \/ sm.pending > 0 \/ sm.reconnectTimeout \/ sm.isStopped

(***************************************************************************)
(* The poll specification: one PollManager, its owner, its interval timer  *)
(* and its pollFunction.                                                   *)
(***************************************************************************)
SmIdle ==
    NewStreamManager([autoReconnect |-> TRUE, maxReconnects |-> 1,
                      onData |-> FALSE, onPartialData |-> FALSE,
                      onUpdate |-> FALSE, onPartialUpdate |-> FALSE,
                      stopIn |-> "none"], "plain")

InitPoll ==
    /\ \E r \in 1..MaxRetriesOpt : pm = NewPollManager(r)
    /\ sm = SmIdle
    /\ td = TdIdle
    /\ td2 = TdIdle
    /\ ag = AgIdle
    /\ pv = PvIdle

\* The owner calls start()
PollStart ==
    /\ pm.starts < MaxStarts
    /\ pm.pollCalls < MaxPolls
    /\ pm' = [pollStart(pm) EXCEPT
                  !.starts = @ + 1,
                  !.last = "start",
                  !.failsSince = IF pm.isStopped THEN 0 ELSE @,
                  !.stoppedBy = IF pm.isStopped THEN "none" ELSE @]
    /\ UNCHANGED <<sm, td, td2, ag, pv>>

\* The owner calls stop()
PollUserStop ==
    /\ pm.userStops < MaxPollStops
    /\ pm' = [pollStop(pm) EXCEPT
                  !.userStops = @ + 1,
                  !.last = "stop",
                  !.stoppedBy = IF pm.isStopped THEN @ ELSE "owner"]
    /\ UNCHANGED <<sm, td, td2, ag, pv>>

\* The interval timer fires: () => this.poll()
PollTick ==
    /\ pm.interval
    /\ pm.pollCalls < MaxPolls
    /\ pm' = [pollBegin(pm) EXCEPT
                  !.last = IF pm.polling \/ pm.isStopped THEN "skip" ELSE "tick"]
    /\ UNCHANGED <<sm, td, td2, ag, pv>>

\* A pollFunction() promise resolves
PollSucceeds ==
    /\ pm.inFlight > 0
    /\ pm' = [pollResolved(pm) EXCEPT
                  !.last = "resolve",
                  !.failsSince = IF pm.isStopped THEN @ ELSE 0]
    /\ UNCHANGED <<sm, td, td2, ag, pv>>

\* A pollFunction() promise rejects
PollFails ==
    /\ pm.inFlight > 0
    /\ LET after == pollRejected(pm)
       IN  pm' = [after EXCEPT
                      !.last = "reject",
                      !.failsSince = IF pm.isStopped THEN @ ELSE @ + 1,
                      !.stoppedBy = IF ~pm.isStopped /\ after.isStopped
                                    THEN "self" ELSE @]
    /\ UNCHANGED <<sm, td, td2, ag, pv>>

NextPoll ==
    \/ PollStart
    \/ PollUserStop
    \/ PollTick
    \/ PollSucceeds
    \/ PollFails

SpecPoll == InitPoll /\ [][NextPoll]_vars

\* C8: PollChannel error policy.  The counter is the number of failed polls
\* handled since the last handled success (or since start); every handled
\* poll made exactly one onData or onError call; the channel is active
\* exactly while fewer than maxRetries such failures have accumulated (or
\* until its owner stops it); every stop fired onStop exactly once however
\* often stop() was called; a stopped channel has no timer left, so it
\* polls no more until start() is called again.
C8_PollErrorPolicy ==
    /\ pm.consecutiveErrors = pm.failsSince
    /\ ~pm.isStopped => pm.failsSince < pm.options.maxRetries
    /\ pm.stoppedBy = "self" =>
           pm.isStopped /\ pm.failsSince = pm.options.maxRetries
    /\ (pm.isStopped /\ pm.starts > 0) => pm.stoppedBy \in {"self", "owner"}
    /\ pm.onStopCalls = pm.onStartCalls - (IF pm.isStopped THEN 0 ELSE 1)
    /\ pm.isStopped => ~pm.interval /\ ~pm.retryTimeout
    /\ pm.onDataCalls + pm.onErrorCalls <= pm.pollCalls

\* Three failures, then a success, maxRetries = 5: onData once, still active
C8_Witness ==
    /\ pm.options.maxRetries = 5
    /\ pm.onErrorCalls = 3
    /\ pm.onDataCalls = 1
    /\ pm.pollCalls = 4
    /\ pm.last = "resolve"
    /\ pm.consecutiveErrors = 0
    /\ ~pm.isStopped /\ pm.interval

\* C9: at most one pollFunction() call is in flight at any time; a tick that
\* finds one in flight starts nothing and leaves nothing queued: a call
\* starts only from start() or a tick, and only when none is in flight.
C9_OnePollInFlight ==
    /\ [](pm.inFlight <= 1 /\ (pm.polling <=> pm.inFlight = 1))
    /\ [][/\ pm'.pollCalls > pm.pollCalls =>
                 pm.inFlight = 0 /\ pm'.last \in {"start", "tick"}
          /\ pm'.last = "skip" => pm'.inFlight = pm.inFlight]_vars

\* A restart while the poll from before the stop is pending, then a tick
C9_Witness ==
    /\ pm.onStartCalls = 2
    /\ pm.pollCalls = 1
    /\ pm.inFlight = 1
    /\ pm.last = "skip"

(***************************************************************************)
(* The agent specification: one Agent, its owner, the server and the       *)
(* transports of its channels.  The owner makes the next sendMessage()     *)
(* call when the last one has returned, thrown or is waiting for idle.     *)
(***************************************************************************)
InitAgent ==
    /\ ag = NewAgent
    /\ sm = SmIdle
    /\ pm = PmIdle
    /\ td = TdIdle
    /\ td2 = TdIdle
    /\ pv = PvIdle

AgSend ==
    /\ ag.sends < MaxSends
    /\ ag.send.pc \notin {"upload", "post"}
    /\ \E useStream \in BOOLEAN, hasCallbacks \in BOOLEAN, files \in 0..MaxFiles :
           ag' = sendBegin(ag, useStream, hasCallbacks, files)
    /\ UNCHANGED <<sm, pm, td, td2, pv>>

AgUploadResolved ==
    /\ ag.send.pc = "upload"
    /\ ag' = uploadResolved(ag)
    /\ UNCHANGED <<sm, pm, td, td2, pv>>

AgUploadRejected ==
    /\ ag.send.pc = "upload"
    /\ ag' = uploadRejected(ag)
    /\ UNCHANGED <<sm, pm, td, td2, pv>>

\* The server answers the POST: the chat of the body, or a new chat
AgPostResolved ==
    /\ ag.send.pc = "post"
    /\ LET new == ag.send.body = 0
           chat == IF new THEN ag.chats + 1 ELSE ag.send.body
       IN  ag' = [postResolved(ag, [chat |-> chat, messages |-> ag.sends])
                     EXCEPT !.chats = IF new THEN @ + 1 ELSE @]
    /\ UNCHANGED <<sm, pm, td, td2, pv>>

AgPostRejected ==
    /\ ag.send.pc = "post"
    /\ ag' = postRejected(ag)
    /\ UNCHANGED <<sm, pm, td, td2, pv>>

\* await waitPromise continues
AgWaitResolved ==
    /\ ag.send.pc = "wait"
    /\ ag.send.waitPromise = "resolved"
    /\ ag' = sendReturn(ag)
    /\ UNCHANGED <<sm, pm, td, td2, pv>>

AgStartStreaming ==
    /\ ag.startStreams < MaxStartStreams
    /\ \E callbacks \in BOOLEAN :
           ag' = [startStreaming(ag, callbacks) EXCEPT !.startStreams = @ + 1]
    /\ UNCHANGED <<sm, pm, td, td2, pv>>

AgReset ==
    /\ ag.resets < MaxAgentResets
    /\ ag' = [agentReset(ag) EXCEPT !.resets = @ + 1]
    /\ UNCHANGED <<sm, pm, td, td2, pv>>

AgDisconnect ==
    /\ ag.resets < MaxAgentResets
    /\ ag' = [disconnect(ag) EXCEPT !.resets = @ + 1]
    /\ UNCHANGED <<sm, pm, td, td2, pv>>

AgSourceResolved ==
    /\ ag.stream.kind = "stream"
    /\ ~ag.stream.open
    /\ ag' = sourceResolved(ag)
    /\ UNCHANGED <<sm, pm, td, td2, pv>>

\* A 'chats' event on a source of the channel (closures stay on a source)
AgChatsEvent ==
    /\ ag.stream.open
    /\ \E status \in ChatStatuses : ag' = chatsListener(ag, status)
    /\ UNCHANGED <<sm, pm, td, td2, pv>>

\* A 'chat_messages' event on a source of the channel
AgMessageEvent ==
    /\ ag.stream.open
    /\ \E inv \in {0, 1} : ag' = messagesListener(ag, inv)
    /\ UNCHANGED <<sm, pm, td, td2, pv>>

AgPollTick ==
    /\ ag.poller.kind = "poll"
    /\ ~ag.poller.isStopped
    /\ ag' = agentPollBegin(ag)
    /\ UNCHANGED <<sm, pm, td, td2, pv>>

AgPollResolved ==
    /\ ag.poller.polling
    /\ \E status \in ChatStatuses, inv \in {0, 1} :
           ag' = agentPollResolved(ag, status, inv)
    /\ UNCHANGED <<sm, pm, td, td2, pv>>

\* A channel gives up by itself: the reconnect budget or maxRetries is
\* exhausted and the manager calls its own stop()
AgStreamFails ==
    /\ ~ag.stream.isStopped
    /\ ag' = [ag EXCEPT !.stream.isStopped = TRUE]
    /\ UNCHANGED <<sm, pm, td, td2, pv>>

AgPollerFails ==
    /\ ~ag.poller.isStopped
    /\ ag' = [ag EXCEPT !.poller.isStopped = TRUE]
    /\ UNCHANGED <<sm, pm, td, td2, pv>>

NextAgent ==
    \/ AgSend
    \/ AgUploadResolved
    \/ AgUploadRejected
    \/ AgPostResolved
    \/ AgPostRejected
    \/ AgWaitResolved
    \/ AgStartStreaming
    \/ AgReset
    \/ AgDisconnect
    \/ AgSourceResolved
    \/ AgChatsEvent
    \/ AgMessageEvent
    \/ AgPollTick
    \/ AgPollResolved
    \/ AgStreamFails
    \/ AgPollerFails

SpecAgent == InitAgent /\ [][NextAgent]_vars

\* C27 (as claimed): for an existing chat the wait of sendMessage is ended
\* only by a status other than busy that follows the POST: when the POST
\* response arrives, the wait armed before the POST is still pending, so
\* sendMessage() does not return as soon as the POST completes.
C27_WaitOutlivesPost ==
    [][(/\ ag.send.pc = "post"
        /\ ag.send.waitPromise # "null"
        /\ ag'.sends = ag.sends
        /\ ag'.send.pc = "wait") =>
           ag'.send.waitPromise = "pending"]_vars

\* The agent specification with its scheduling: continuations of settled
\* promises run, requests are answered, sources open and deliver events,
\* the poll timer fires
SpecAgentFair ==
    /\ InitAgent
    /\ [][NextAgent]_vars
    /\ WF_vars(AgWaitResolved)
    /\ WF_vars(AgPostResolved)
    /\ WF_vars(AgSourceResolved)
    /\ WF_vars(AgChatsEvent)
    /\ WF_vars(AgPollTick)
    /\ WF_vars(AgPollResolved)

\* The channel of the wait the latest sendMessage() call armed
WaitChannel == IF ag.send.useStream THEN ag.stream ELSE ag.poller

\* The latest sendMessage() call awaits a wait whose channel was stopped
\* without a status other than busy having been seen
WaitAbandoned ==
    /\ ag.send.pc = "wait"
    /\ ag.send.waitPromise = "pending"
    /\ WaitChannel.wait = ag.sends
    /\ WaitChannel.isStopped

\* C26 (as claimed): every sendMessage() call that armed a wait eventually
\* settles, also when the wait's channel is stopped (by disconnect(), by
\* reset(), or by giving up) without a status other than busy having been
\* seen: the call then still returns or throws.
C26_AbandonedWaitSettles ==
    WaitAbandoned ~> (ag.send.pc # "wait")

(***************************************************************************)
(* The polling-agent specification: one Agent whose owner sends messages   *)
(* in poll mode, with or without onToolCall, and a server whose chat is    *)
(* busy from the POST until the turn ends, awaiting input in between.      *)
(* Timers fire and requests are answered: the fairness conditions.         *)
(***************************************************************************)
MaxToolCalls == 2       \* client tool invocations the server makes

\* sendMessage(text, {stream: false, ...}) once the turn before ended
PtSend ==
    /\ ag.sends < MaxSends
    /\ ag.send.pc \in {"none", "done", "failed"}
    /\ ag.server.status = "idle"
    /\ \E hasCallbacks \in BOOLEAN : ag' = sendBegin(ag, FALSE, hasCallbacks, 0)
    /\ UNCHANGED <<sm, pm, td, td2, pv>>

\* The server answers the POST and starts the turn
PtPostResolved ==
    /\ ag.send.pc = "post"
    /\ LET new == ag.send.body = 0
           chat == IF new THEN ag.chats + 1 ELSE ag.send.body
       IN  ag' = [postResolved(ag, [chat |-> chat, messages |-> ag.sends])
                     EXCEPT !.chats = IF new THEN @ + 1 ELSE @,
                            !.server.status = "busy"]
    /\ UNCHANGED <<sm, pm, td, td2, pv>>

\* The server answers a poll with the chat as it is now
PtPollResolved ==
    /\ ag.poller.polling
    /\ ag' = agentPollResolved(ag, ag.server.status, ag.server.awaiting)
    /\ UNCHANGED <<sm, pm, td, td2, pv>>

\* The busy chat reaches awaiting-input: a new client tool invocation
ServerAwaitsInput ==
    /\ ag.server.status = "busy"
    /\ ag.server.awaiting = 0
    /\ ag.server.toolCalls < MaxToolCalls
    /\ ag' = [ag EXCEPT !.server.toolCalls = @ + 1,
                        !.server.awaiting = ag.server.toolCalls + 1]
    /\ UNCHANGED <<sm, pm, td, td2, pv>>

\* The owner's onToolCall handler submits the result of a dispatched
\* invocation
ToolResultSubmitted ==
    /\ ag.server.awaiting # 0
    /\ ag.server.awaiting \in ag.dispatchedToolCalls
    /\ ag' = [ag EXCEPT !.server.awaiting = 0]
    /\ UNCHANGED <<sm, pm, td, td2, pv>>

\* The turn ends
ServerFinishes ==
    /\ ag.server.status = "busy"
    /\ ag.server.awaiting = 0
    /\ ag' = [ag EXCEPT !.server.status = "idle"]
    /\ UNCHANGED <<sm, pm, td, td2, pv>>

NextAgentPoll ==
    \/ PtSend
    \/ PtPostResolved
    \/ AgPostRejected
    \/ AgWaitResolved
    \/ AgPollTick
    \/ PtPollResolved
    \/ ServerAwaitsInput
    \/ ToolResultSubmitted
    \/ ServerFinishes

SpecAgentPoll ==
    /\ InitAgent
    /\ [][NextAgentPoll]_vars
    /\ WF_vars(PtPostResolved)
    /\ WF_vars(AgWaitResolved)
    /\ WF_vars(AgPollTick)
    /\ WF_vars(PtPollResolved)
    /\ WF_vars(ToolResultSubmitted)
    /\ WF_vars(ServerFinishes)

\* C25 (as claimed): in poll mode every tool invocation that reaches
\* awaiting-input while a wait with onToolCall is active is eventually
\* handed to onToolCall, also when the chat's status stays busy throughout.
C25_AwaitingEventuallyDispatched ==
    (ag.server.awaiting # 0 /\ ~ag.poller.isStopped /\ ag.poller.callbacks)
        ~> (ag.server.awaiting \in ag.dispatchedToolCalls)

\* The number of transports of the agent that are live: created, connected
\* or started, and not stopped
LiveTransports ==
    (IF ag.stream.isStopped THEN 0 ELSE 1)
        + (IF ag.poller.isStopped THEN 0 ELSE 1) + ag.orphans

\* C13 (as claimed): an Agent has at most one live transport at any time,
\* whatever mix of stream and poll waits its owner starts.
C13_OneLiveTransport ==
    LiveTransports <= 1

\* C14 (as claimed): when a chat update with a status other than busy is
\* observed during a wait, the wait's channel is torn down: from that update
\* on it is stopped and makes no further onChat/onMessage/onToolCall call,
\* in stream mode as in poll mode.
C14_IdleTearsDown ==
    /\ ag.stream.idleSeen => ag.stream.isStopped /\ ~ag.stream.late
    /\ ag.poller.idleSeen => ag.poller.isStopped /\ ~ag.poller.late

\* Poll mode only: the half of C14 that holds
PollIdleTearsDown ==
    ag.poller.idleSeen => ag.poller.isStopped /\ ~ag.poller.late /\ ~ag.pollerRef

\* The positions of an entry in the log of the latest sendMessage() call
LogAt(what) == {n \in DOMAIN ag.send.log : ag.send.log[n] = what}

InitProvider ==
    /\ \E streamEnabled \in BOOLEAN : pv = NewProvider(streamEnabled)
    /\ sm = SmIdle
    /\ pm = PmIdle
    /\ td = TdIdle
    /\ td2 = TdIdle
    /\ ag = AgIdle

\* The owner's sendMessage() call and its continuations end freshness
Acting(p) == [p EXCEPT !.fresh = FALSE, !.stale = {}]

PvSend ==
    /\ pv.sends < MaxProviderSends
    /\ pv.send.pc \notin {"upload", "post"}
    /\ \E files \in 0..MaxFiles : pv' = providerSendBegin(Acting(pv), files)
    /\ UNCHANGED <<sm, pm, td, td2, ag>>

PvUploadResolved ==
    /\ pv.send.pc = "upload"
    /\ pv' = providerUploadResolved(Acting(pv))
    /\ UNCHANGED <<sm, pm, td, td2, ag>>

PvUploadRejected ==
    /\ pv.send.pc = "upload"
    /\ pv' = providerUploadRejected(Acting(pv))
    /\ UNCHANGED <<sm, pm, td, td2, ag>>

PvPostResolved ==
    /\ pv.send.pc = "post"
    /\ pv' = providerPostResolved(Acting(pv))
    /\ UNCHANGED <<sm, pm, td, td2, ag>>

PvPostRejected ==
    /\ pv.send.pc = "post"
    /\ pv' = providerPostRejected(Acting(pv))
    /\ UNCHANGED <<sm, pm, td, td2, ag>>

\* The owner calls reset()
PvReset ==
    /\ pv.resets < MaxProviderResets
    /\ pv' = [providerReset(pv) EXCEPT !.resets = @ + 1,
                                       !.fresh = TRUE, !.stale = {}]
    /\ UNCHANGED <<sm, pm, td, td2, ag>>

\* The owner calls stopGeneration()
PvStopGeneration ==
    /\ pv.stops < MaxStopGenerations
    /\ pv' = [stopGeneration(Acting(pv)) EXCEPT !.stops = @ + 1]
    /\ UNCHANGED <<sm, pm, td, td2, ag>>

\* The POST of api.stopChat() resolves or rejects: the error is logged
PvStopChatSettled ==
    /\ pv.stopChats > 0
    /\ pv' = [pv EXCEPT !.stopChats = @ - 1]
    /\ UNCHANGED <<sm, pm, td, td2, ag>>

\* The owner sets the chatId prop to chat 1: the effect of
\* provider.tsx:130-134 runs
PvSetChatId ==
    /\ pv.setChatIds < MaxSetChatIds
    /\ pv.chatId # 1
    /\ pv' = [setChatId(Acting(pv), 1) EXCEPT !.setChatIds = @ + 1]
    /\ UNCHANGED <<sm, pm, td, td2, ag>>

\* React commits: the effect of provider.tsx:100-102 runs
PvRender ==
    /\ pv.chatIdRef # pv.chatId
    /\ pv' = [pv EXCEPT !.chatIdRef = pv.chatId]
    /\ UNCHANGED <<sm, pm, td, td2, ag>>

\* api.fetchChat() of a streamChat() call settles (null on failure)
PvFetchResolved ==
    /\ pv.streamFetches > 0
    /\ \E chat \in ChatDTOs \cup {NoChat} : pv' = streamChatFetched(pv, chat)
    /\ UNCHANGED <<sm, pm, td, td2, ag>>

PvSourceResolved ==
    /\ pv.manager.kind = "stream"
    /\ ~pv.manager.open
    /\ pv' = providerSourceResolved(pv)
    /\ UNCHANGED <<sm, pm, td, td2, ag>>

PvChatsEvent ==
    /\ pv.manager.open
    /\ \E chat \in ChatDTOs : pv' = providerChatsListener(pv, chat)
    /\ UNCHANGED <<sm, pm, td, td2, ag>>

PvMessageEvent ==
    /\ pv.manager.open
    /\ \E inv \in {0, 1} : pv' = providerMessagesListener(pv, inv)
    /\ UNCHANGED <<sm, pm, td, td2, ag>>

PvPollTick ==
    /\ pv.manager.kind = "poll"
    /\ ~pv.manager.isStopped
    /\ pv.manager.fetching < MaxFetches
    /\ pv' = providerPollBegin(pv)
    /\ UNCHANGED <<sm, pm, td, td2, ag>>

PvPollResolved ==
    /\ pv.manager.polling
    /\ \E status \in ChatStatuses : pv' = providerPollResolved(pv, status)
    /\ UNCHANGED <<sm, pm, td, td2, ag>>

\* api.fetchChat() of the poller's onData settles (null on failure)
PvPollFetchResolved ==
    /\ pv.manager.fetching > 0
    /\ \E chat \in ChatDTOs \cup {NoChat}, inv \in {0, 1} :
           pv' = providerPollFetched(pv, chat, inv)
    /\ UNCHANGED <<sm, pm, td, td2, ag>>

NextProvider ==
    \/ PvSend
    \/ PvUploadResolved
    \/ PvUploadRejected
    \/ PvPostResolved
    \/ PvPostRejected
    \/ PvReset
    \/ PvStopGeneration
    \/ PvStopChatSettled
    \/ PvSetChatId
    \/ PvRender
    \/ PvFetchResolved
    \/ PvSourceResolved
    \/ PvChatsEvent
    \/ PvMessageEvent
    \/ PvPollTick
    \/ PvPollResolved
    \/ PvPollFetchResolved

SpecProvider == InitProvider /\ [][NextProvider]_vars

\* C18 (as claimed): if an attachment upload fails, the send fails and no
\* message is posted (the provider's api.sendMessage path).
C18_UploadFailureFailsSend ==
    pv.send.uploadFailed => ~pv.send.posted /\ pv.send.pc = "failed"

\* The Agent.sendMessage half of C18, which holds: Promise.all rejects and
\* the POST is never issued
AgentUploadFailureFailsSend ==
    ag.send.uploadFailed => ag.send.pc = "failed" /\ LogAt("post") = {}

\* C19 (as claimed): after reset() returns the coordinator is in a fresh
\* chat-less state and stays there until its owner acts again: no wait is
\* active, the dispatched set is empty, chat id and messages are cleared,
\* and nothing the torn-down wait started (a late message, a poll or chat
\* fetch in flight) applies a state update or fires a callback.
C19_ResetStaysFresh ==
    pv.fresh =>
        /\ pv.chatId = 0 /\ pv.chat = NoChat /\ pv.messages = {}
        /\ pv.dispatchedToolInvocations = {}
        /\ pv.manager.isStopped /\ ~pv.managerRef
        /\ pv.stale = {}

\* The Agent half of C19, which holds: after reset() or disconnect() both
\* channels are stopped until the owner starts a wait again
AgentResetStopsBoth ==
    (~ag.streamRef /\ ~ag.pollerRef) => LiveTransports = 0

\* C23 (as claimed): stopGeneration() always tears down the local wait: when
\* it returns, the manager that streamChat()/pollChat() started is stopped
\* and status is idle, whatever becomes of the server's stop request.
C23_StopGenerationTearsDown ==
    [][pv'.stops = pv.stops + 1 =>
           pv'.manager.isStopped /\ pv'.status = "idle"]_vars

\* Poll mode only: the half of C23 that holds
PollStopGenerationTearsDown ==
    [][(pv'.stops = pv.stops + 1 /\ ~pv.streamEnabled /\ pv.orphans = 0) =>
           pv'.manager.isStopped /\ pv'.status = "idle"]_vars

\* C24 (as claimed): the manager reference set by streamChat() stays set for
\* as long as that manager is running, and at most one manager started by
\* the provider is live at any time: no manager is replaced while it runs.
C24_OneManagerReferenced ==
    /\ ~pv.manager.isStopped => pv.managerRef
    /\ pv.orphans = 0

\* The reference half of C24 alone
ManagerStaysReferenced ==
    ~pv.manager.isStopped => pv.managerRef

\* The at-most-one half of C24 alone
NoManagerReplacedLive ==
    pv.orphans = 0

(***************************************************************************)
(* The tool specification: one dispatcher and the message updates that     *)
(* reach it (by stream or by poll, the same handler either way).           *)
(***************************************************************************)
ToolConfigs ==
    {<<path, h>> \in Paths \X [Names -> HandlerKinds] :
        path = "agent" =>
            \A n \in Names : h[n] \in {"returns", "throws", "reenters"}}

InitTool ==
    /\ \E c \in ToolConfigs : td = NewDispatcher(c[1], c[2], 1)
    /\ td2 = TdIdle
    /\ sm = SmIdle
    /\ pm = PmIdle
    /\ ag = AgIdle
    /\ pv = PvIdle

\* A message update is delivered
DeliverMessage ==
    /\ \E msg \in ToolMessages :
           td' = [updateMessage(td, msg) EXCEPT
                      !.delivered =
                          [i \in Ids |->
                              IF /\ td.path = "provider" => msg.chat = td.chatId
                                 /\ \E k \in 1..Len(msg.invs) :
                                        /\ msg.invs[k].id = i
                                        /\ msg.invs[k].type = "client"
                                        /\ msg.invs[k].status = "awaiting_input"
                              THEN 1 ELSE @[i]]]
    /\ UNCHANGED <<sm, pm, td2, ag, pv>>

\* The promise a handler returned settles
HandlerSettles ==
    /\ \E id \in Ids :
           /\ td.running[id] > 0
           /\ td' = handlerSettled(td, id)
    /\ UNCHANGED <<sm, pm, td2, ag, pv>>

\* The owner calls reset()
ToolReset ==
    /\ td.resets < MaxResets
    /\ td' = reset(td)
    /\ UNCHANGED <<sm, pm, td2, ag, pv>>

\* The owner opens a chat again (setChatId / the next sendMessage)
ToolSetChat ==
    /\ td.chatId = 0
    /\ \E c \in Chats : td' = [td EXCEPT !.chatId = c]
    /\ UNCHANGED <<sm, pm, td2, ag, pv>>

NextTool ==
    \/ DeliverMessage
    \/ HandlerSettles
    \/ ToolReset
    \/ ToolSetChat

SpecTool == InitTool /\ [][NextTool]_vars

(***************************************************************************)
(* The two-provider specification: two chat providers in one process, the  *)
(* first on chat 1 and the second on chat 2.  dispatchedToolInvocations is *)
(* a constant of the module src/src/agent/actions.ts, so both providers    *)
(* read and write one set: td.dispatched and td2.dispatched are that set.  *)
(* Invocation i belongs to a message of chat i.  The second provider is    *)
(* never reset.                                                            *)
(***************************************************************************)
TwoHandlers == [Names -> {"returns", "rejects"}]

\* The message updates of chat c: its one message with its invocation
ChatMessages(c) ==
    {msg \in ToolMessages :
        msg.chat = c /\ Len(msg.invs) = 1 /\ msg.invs[1].id = c}

\* The provider t with the module's set as another provider left it
Shared(t, other) == [t EXCEPT !.dispatched = other.dispatched]

InitTwo ==
    /\ \E h1 \in TwoHandlers, h2 \in TwoHandlers :
           /\ td = NewDispatcher("provider", h1, 1)
           /\ td2 = NewDispatcher("provider", h2, 2)
    /\ sm = SmIdle
    /\ pm = PmIdle
    /\ ag = AgIdle
    /\ pv = PvIdle

\* A message update of chat 1 reaches the first provider
FirstDelivered ==
    /\ \E msg \in ChatMessages(1) : td' = updateMessage(td, msg)
    /\ td2' = Shared(td2, td')
    /\ UNCHANGED <<sm, pm, ag, pv>>

\* A message update of chat 2 reaches the second provider
SecondDelivered ==
    /\ \E msg \in ChatMessages(2) : td2' = updateMessage(td2, msg)
    /\ td' = Shared(td, td2')
    /\ UNCHANGED <<sm, pm, ag, pv>>

FirstHandlerSettles ==
    /\ \E id \in Ids : td.running[id] > 0 /\ td' = handlerSettled(td, id)
    /\ UNCHANGED <<sm, pm, td2, ag, pv>>

SecondHandlerSettles ==
    /\ \E id \in Ids : td2.running[id] > 0 /\ td2' = handlerSettled(td2, id)
    /\ UNCHANGED <<sm, pm, td, ag, pv>>

\* The owner of the first provider calls reset(), or its chatId prop
\* becomes null
FirstReset ==
    /\ td.resets < MaxResets
    /\ td' = reset(td)
    /\ td2' = Shared(td2, td')
    /\ UNCHANGED <<sm, pm, ag, pv>>

\* The owner of the first provider opens chat 1 again
FirstSetChat ==
    /\ td.chatId = 0
    /\ td' = [td EXCEPT !.chatId = 1]
    /\ UNCHANGED <<sm, pm, td2, ag, pv>>

NextTwo ==
    \/ FirstDelivered
    \/ SecondDelivered
    \/ FirstHandlerSettles
    \/ SecondHandlerSettles
    \/ FirstReset
    \/ FirstSetChat

SpecTwo == InitTwo /\ [][NextTwo]_vars

\* C29 (as claimed): with two providers in one process, reset() or
\* setChatId(null) on one never makes the other dispatch again an invocation
\* id it has already dispatched: the provider that was never reset calls the
\* handler of each invocation at most once, however often it is redelivered.
C29_OtherProviderUnaffected ==
    \A i \in Ids : td2.calls[i] <= 1 /\ td2.results[i] <= 1

\* Without a reset of the first provider the second dispatches at most once
TwoAtMostOnceWithoutReset ==
    td.resets = 0 => \A i \in Ids : td2.calls[i] <= 1 /\ td2.results[i] <= 1

\* At-most-once half of C1 (holds): without a reset, no invocation id gets a
\* second handler call or a second submitted result, however often and
\* however re-entrantly it is delivered.
AtMostOnceDispatch ==
    td.resets = 0 =>
        \A i \in Ids : td.calls[i] <= 1 /\ td.results[i] <= 1

\* C1 (as claimed): without a reset, an awaiting-input client invocation
\* that was delivered, and whose function has a handler, gets exactly one
\* handler call and - once that call is over - exactly one reported result.
C1_ExactlyOneCallAndResult ==
    (td.resets = 0 /\ td.path = "provider") =>
        \A i \in Ids :
            /\ td.calls[i] <= 1 /\ td.results[i] <= 1
            /\ (/\ td.delivered[i] = 1
                /\ hasHandlers(td)
                /\ td.handlers[NameOf(i)] # "none") =>
                   /\ td.calls[i] = 1
                   /\ td.running[i] = 0 => td.results[i] = 1

\* C16 (as claimed): every awaiting-input client invocation delivered for
\* the current chat whose function has no registered handler is answered at
\* once with a "not available" result, also when no handler at all is
\* registered (no handler has thrown: that case is C17's).
C16_NoHandlerAnswered ==
    (td.path = "provider" /\ ~td.everThrown) =>
        \A i \in Ids :
            (td.delivered[i] = 1 /\ td.handlers[NameOf(i)] = "none") =>
                td.results[i] >= 1

\* The handler of a function fails when invoked
Fails(kind) == kind \in {"throws", "rejects"}

\* C17 (as claimed): when a registered handler fails, by throwing
\* synchronously or by returning a promise that rejects, no exception
\* leaves the dispatcher, an error result is reported for that invocation
\* once the handler is over, and the other invocations of the message are
\* still dispatched (handler called, or "not available" reported).
C17_HandlerFailureReported ==
    (td.path = "provider" /\ td.resets = 0) =>
        \A i \in Ids :
            (td.delivered[i] = 1 /\ Fails(td.handlers[NameOf(i)])) =>
                /\ ~td.everThrown
                /\ td.calls[i] = 1
                /\ td.running[i] = 0 => td.results[i] = 1
                /\ \A j \in Ids :
                       td.delivered[j] = 1 =>
                           IF td.handlers[NameOf(j)] = "none"
                           THEN td.results[j] >= 1
                           ELSE td.calls[j] >= 1

\* The half of C17 that holds: a handler whose promise rejects
RejectionReported ==
    (td.path = "provider" /\ td.resets = 0 /\ ~td.everThrown) =>
        \A i \in Ids :
            (td.delivered[i] = 1 /\ td.handlers[NameOf(i)] = "rejects") =>
                /\ td.calls[i] = 1
                /\ td.running[i] = 0 => td.results[i] = 1

====
